---- MODULE Spec2Model ----
(***************************************************************************)
(* FretboardComponent of source/PluginEditor.cpp: geometry layout, pointer *)
(* hit-testing, note naming and the time-based set of fading highlights.   *)
(*                                                                         *)
(* Coordinates are juce float pixels, held here as integers in units of    *)
(* 1/U pixel; U is chosen so that every quotient the layout takes (rowH,   *)
(* cellWidth, 0.12*rowH, 0.065*boardHeight, centres) is exact.  Time is    *)
(* the millisecond counter in tenths of a second.                          *)
(***************************************************************************)
EXTENDS Integers, Sequences, FiniteSets, TLC

\* ------------------------------------------------------------ bounds
MaxActive == 2
MaxTime == 18
MaxFadeTime == 24
\* Last clock value at which a note is still triggered in SpecLive.
TriggerUntil == 9

\* Widget sizes the host sets (pixels): degenerate (as constructed), low (the
\* open circles overlap), normal.
Sizes == { <<0, 0>>, <<236, 100>>, <<356, 292>> }
\* Clock advances between events, in tenths of a second.
TimeSteps == { 9 }
\* Arguments of programmatic triggerNote calls.
MinInt == -(2147483647) - 1
MaxInt == 2147483647 + 0
TrigStrings == { MinInt, -1, 0, 4 }
TrigFrets == { -1, 0, 12, 13, MaxInt }
\* Every position of the board, and the integers around them.
AllStrings == -1 .. 4
AllFrets == -1 .. 13
\* Pointer positions (pixels).
MouseXs == { 66, 84, 175 }
MouseYs == { 27, 44, 176 }

\* ------------------------------------------------------------ constants
kNumStrings == 4
kNumFrets == 12
Duration == 18
U == 12 * 100

Px(n) == n * U

Max2(a, b) == IF a >= b THEN a ELSE b
Min2(a, b) == IF a <= b THEN a ELSE b
jlimit(lo, hi, v) == IF v < lo THEN lo ELSE IF hi < v THEN hi ELSE v

\* ------------------------------------------------------------ juce::Rectangle
Rect(x, y, w, h) == [x |-> x, y |-> y, w |-> w, h |-> h]
Point(x, y) == [x |-> x, y |-> y]
ZeroRect == Rect(0, 0, 0, 0)

expanded(r, dx, dy) ==
    Rect(r.x - dx, r.y - dy, Max2(0, r.w + 2 * dx), Max2(0, r.h + 2 * dy))
reduced(r, dx, dy) == expanded(r, -dx, -dy)
withTrimmedLeft(r, amt) == Rect(r.x + amt, r.y, Max2(0, r.w - amt), r.h)
withY(r, y) == Rect(r.x, y, r.w, r.h)
withHeight(r, h) == Rect(r.x, r.y, r.w, Max2(0, h))
getCentreY(r) == r.y + r.h \div 2
getCentre(r) == Point(r.x + r.w \div 2, r.y + r.h \div 2)
getRight(r) == r.x + r.w
getBottom(r) == r.y + r.h
contains(r, p) ==
    /\ p.x >= r.x
    /\ p.y >= r.y
    /\ p.x < r.x + r.w
    /\ p.y < r.y + r.h
isEmpty(r) == r.w <= 0 \/ r.h <= 0

\* std::round on a coordinate: to the nearest whole pixel, halves away from 0.
stdRound(v) ==
    IF v >= 0 THEN ((v + U \div 2) \div U) * U
    ELSE -(((-v + U \div 2) \div U) * U)

\* juce::roundToInt: to the nearest integer pixel, halves to even.
roundToInt(v) ==
    LET fl == v \div U
        rem == v - fl * U
    IN  IF 2 * rem < U THEN fl
        ELSE IF 2 * rem > U THEN fl + 1
        ELSE IF fl % 2 = 0 THEN fl ELSE fl + 1

toNearestInt(r) ==
    Rect(roundToInt(r.x), roundToInt(r.y), roundToInt(r.w), roundToInt(r.h))

\* ------------------------------------------------------------ note names
kNoteNames == << "C", "C#", "D", "D#", "E", "F", "F#", "G", "G#", "A", "A#", "B" >>

Digit(d) == << "0", "1", "2", "3", "4", "5", "6", "7", "8", "9" >>[d + 1]

RECURSIVE Decimal(_)
Decimal(n) == IF n < 10 THEN Digit(n) ELSE Decimal(n \div 10) \o Digit(n % 10)

\* juce::String (int): decimal digits, a leading minus sign when negative.
StringOfInt(n) == IF n < 0 THEN "-" \o Decimal(-n) ELSE Decimal(n)

midiToNote(midi) ==
    LET n == Max2(0, midi)
        idx == n % 12
        oct == (n \div 12) - 1
    IN  kNoteNames[idx + 1] \o StringOfInt(oct)

\* Mutant: the rows numbered bottom to top (row 0 = E1).
baseMidiBottomUp(stringIdx) ==
    CASE stringIdx = 0 -> 28
      [] stringIdx = 1 -> 33
      [] stringIdx = 2 -> 38
      [] OTHER -> 43

baseMidiForString(stringIdx) ==
    CASE stringIdx = 0 -> 43
      [] stringIdx = 1 -> 38
      [] stringIdx = 2 -> 33
      [] OTHER -> 28

\* Cubic ease-out on t = num/den, clamped to [0,1]; the result is a fraction
\* over den^3 (1 - (1 - t)^3 taken exactly).
Frac(num, den) == [num |-> num, den |-> den]
Cube(v) == v * v * v

\* Mutant: cubic ease-in, t^3.
easeInCubic01(t) ==
    LET c == jlimit(0, t.den, t.num)
    IN  Frac(Cube(c), Cube(t.den))

easeOutCubic01(t) ==
    LET c == jlimit(0, t.den, t.num)
    IN  Frac(Cube(t.den) - Cube(t.den - c), Cube(t.den))

\* ------------------------------------------------------------ double
\* The clock, t0, the duration and t are IEEE-754 doubles.  A significand is
\* a natural number below 2^90 held as three limbs of 30 bits, least
\* significant first; a double is sign, significand m and exponent e with
\* value m * 2^e and 2^52 <= m < 2^53 (m = 0 for zero).
Limb == 2^30

natZero == << 0, 0, 0 >>
natOne == << 1, 0, 0 >>
natTwo52 == << 0, 2^22, 0 >>
natTwo53 == << 0, 2^23, 0 >>

natOfInt(n) == << n % Limb, n \div Limb, 0 >>

natAdd(a, b) ==
    LET s1 == a[1] + b[1]
        s2 == a[2] + b[2] + (s1 \div Limb)
        s3 == a[3] + b[3] + (s2 \div Limb)
    IN  << s1 % Limb, s2 % Limb, s3 % Limb >>

\* a - b for a >= b
natSub(a, b) ==
    LET d1 == a[1] - b[1]
        b1 == IF d1 < 0 THEN 1 ELSE 0
        d2 == a[2] - b[2] - b1
        b2 == IF d2 < 0 THEN 1 ELSE 0
    IN  << d1 + b1 * Limb, d2 + b2 * Limb, a[3] - b[3] - b2 >>

natGeq(a, b) ==
    \/ a[3] > b[3]
    \/ a[3] = b[3] /\ a[2] > b[2]
    \/ a[3] = b[3] /\ a[2] = b[2] /\ a[1] >= b[1]

natShl1(a) ==
    << (2 * a[1]) % Limb,
       (2 * a[2] + a[1] \div 2^29) % Limb,
       (2 * a[3] + a[2] \div 2^29) % Limb >>

natShr1(a) ==
    << a[1] \div 2 + (a[2] % 2) * 2^29,
       a[2] \div 2 + (a[3] % 2) * 2^29,
       a[3] \div 2 >>

RECURSIVE natShl(_, _)
natShl(a, k) ==
    IF k <= 0 \/ a = natZero THEN a ELSE natShl(natShl1(a), k - 1)

RECURSIVE natMulInt(_, _)
natMulInt(a, n) ==
    IF n = 0 THEN natZero
    ELSE natAdd(IF n % 2 = 1 THEN a ELSE natZero,
                natShl1(natMulInt(a, n \div 2)))

Double(neg, m, e) == [neg |-> neg, m |-> m, e |-> e]

\* Drops low bits until the significand is below 2^53, keeping the last bit
\* dropped (guard) and whether anything below it was set (sticky).
RECURSIVE dropBits(_)
dropBits(r) ==
    IF natGeq(r.m, natTwo53)
    THEN dropBits([m |-> natShr1(r.m), e |-> r.e + 1, guard |-> r.m[1] % 2,
                   sticky |-> r.sticky \/ r.guard = 1])
    ELSE r

RECURSIVE normalize(_)
normalize(d) ==
    IF natGeq(d.m, natTwo52) THEN d
    ELSE normalize(Double(d.neg, natShl1(d.m), d.e - 1))

\* The double nearest to m * 2^e (plus a nonzero amount below one unit of m
\* when inexact is set), ties to even.
roundToDouble(neg, m, e, inexact) ==
    IF m = natZero THEN Double(FALSE, natZero, 0)
    ELSE
        LET r == dropBits([m |-> m, e |-> e, guard |-> 0,
                           sticky |-> inexact])
            up == r.guard = 1 /\ (r.sticky \/ r.m[1] % 2 = 1)
            m1 == IF up THEN natAdd(r.m, natOne) ELSE r.m
        IN  IF natGeq(m1, natTwo53)
            THEN Double(neg, natShr1(m1), r.e + 1)
            ELSE normalize(Double(neg, m1, r.e))

\* (double) n for an int n >= 0
doubleOfInt(n) == roundToDouble(FALSE, natOfInt(n), 0, FALSE)

\* a * (double) n, n a whole number >= 0
fmulInt(a, n) == roundToDouble(a.neg, natMulInt(a.m, n), a.e, FALSE)

\* a - b for a, b >= 0
fsub(a, b) ==
    IF b.m = natZero THEN a
    ELSE IF a.m = natZero THEN Double(TRUE, b.m, b.e)
    ELSE
        LET e == Min2(a.e, b.e)
            ma == natShl(a.m, a.e - e)
            mb == natShl(b.m, b.e - e)
        IN  IF natGeq(ma, mb)
            THEN roundToDouble(FALSE, natSub(ma, mb), e, FALSE)
            ELSE roundToDouble(TRUE, natSub(mb, ma), e, FALSE)

\* Binary long division of significands: steps more quotient bits.
RECURSIVE divLoop(_, _, _)
divLoop(qr, d, steps) ==
    IF steps = 0 THEN qr
    ELSE
        LET r2 == natShl1(qr.r)
            q2 == natShl1(qr.q)
        IN  IF natGeq(r2, d)
            THEN divLoop([q |-> natAdd(q2, natOne), r |-> natSub(r2, d)],
                         d, steps - 1)
            ELSE divLoop([q |-> q2, r |-> r2], d, steps - 1)

\* a / b for b > 0
fdiv(a, b) ==
    IF a.m = natZero THEN a
    ELSE
        LET first == natGeq(a.m, b.m)
            qr == divLoop([q |-> IF first THEN natOne ELSE natZero,
                           r |-> IF first THEN natSub(a.m, b.m) ELSE a.m],
                          b.m, 55)
        IN  roundToDouble(a.neg, qr.q, a.e - b.e - 55, qr.r # natZero)

\* a >= b for b > 0
fgeq(a, b) ==
    /\ ~a.neg
    /\ a.m # natZero
    /\ \/ a.e > b.e
       \/ a.e = b.e /\ natGeq(a.m, b.m)

\* The literals 1e-3, 1.0 and n/10 (1.80 is 18/10), correctly rounded.
kMilli == fdiv(doubleOfInt(1), doubleOfInt(1000))
kOne == doubleOfInt(1)
tenthsLiteral(n) == fdiv(doubleOfInt(n), doubleOfInt(10))

\* juce::Time::getMillisecondCounterHiRes() * 1e-3 with the counter at a
\* whole number of tenths of a second.
seconds(tenths) == fmulInt(kMilli, 100 * tenths)

\* ------------------------------------------------------------ state
VARIABLES
    width, height,      \* Component size, pixels
    staticLayer,        \* cached image: null, or its width and height
    boardBounds,        \* frets 1..12
    rowRects,           \* per-string rows
    openCircles,        \* open-string ellipses (their rectangles)
    openRadius,         \* shared with highlight circles
    active,             \* juce::Array<Animation>
    onNotePlayed,       \* whether the std::function holds a callback
    now,                \* juce::Time::getMillisecondCounterHiRes() * 1e-3
    lastOp              \* the last handler run and what it did (observation)

vars == << width, height, staticLayer, boardBounds, rowRects, openCircles,
           openRadius, active, onNotePlayed, now, lastOp >>

NullImage == [null |-> TRUE, w |-> 0, h |-> 0]
Image(w, h) == [null |-> FALSE, w |-> w, h |-> h]

\* The component as one value, with the effects of the running handler:
\* callback invocations, repaint requests, static-layer rebuilds, triggerNote
\* calls issued by mouseDown, ellipses filled and highlights removed by paint,
\* the layer image paint has drawn.
Comp ==
    [ width |-> width, height |-> height, staticLayer |-> staticLayer,
      boardBounds |-> boardBounds, rowRects |-> rowRects,
      openCircles |-> openCircles, openRadius |-> openRadius,
      active |-> active, onNotePlayed |-> onNotePlayed, now |-> now,
      called |-> << >>, repaints |-> << >>, rebuilds |-> 0,
      triggers |-> << >>, drawn |-> << >>, removed |-> 0, blit |-> << >> ]

\* ------------------------------------------------------------ rebuildStatic
layoutBoard(w, h) ==
    LET outer == reduced(Rect(0, 0, Px(w), Px(h)), Px(16), Px(16))
        boardOuter == withTrimmedLeft(outer, Px(64))
    IN  reduced(boardOuter, Px(10), Px(10))

layoutRow(bb, s) ==
    LET rowH == bb.h \div kNumStrings
        r == withHeight(withY(bb, bb.y + s * rowH), rowH)
    IN  reduced(r, 0, Min2(Px(3), (r.h * 12) \div 100))

layoutOpenRadius(bb) == jlimit(Px(12), Px(22), (bb.h * 65) \div 1000)

layoutOpenCircle(bb, rows, radius, s) ==
    LET cy == getCentreY(rows[s + 1])
        nutX == stdRound(bb.x) + U \div 2
        cx == nutX - (radius + Px(12))
    IN  Rect(cx - radius, cy - radius, 2 * radius, 2 * radius)

\* Mutant: the degenerate-size test is off by one (a size of 2 is laid out).
rebuildStaticBelowTwo(c) ==
    IF c.width < 2 \/ c.height < 2 THEN c
    ELSE
        LET bb == layoutBoard(c.width, c.height)
            rows == [s \in 1..kNumStrings |-> layoutRow(bb, s - 1)]
            radius == layoutOpenRadius(bb)
        IN  [c EXCEPT
                !.staticLayer = Image(c.width, c.height),
                !.boardBounds = bb,
                !.rowRects = rows,
                !.openRadius = radius,
                !.openCircles =
                    [s \in 1..kNumStrings |->
                        layoutOpenCircle(bb, rows, radius, s - 1)],
                !.rebuilds = @ + 1]

rebuildStatic(c) ==
    IF c.width <= 2 \/ c.height <= 2 THEN c
    ELSE
        LET bb == layoutBoard(c.width, c.height)
            rows == [s \in 1..kNumStrings |-> layoutRow(bb, s - 1)]
            radius == layoutOpenRadius(bb)
        IN  [c EXCEPT
                !.staticLayer = Image(c.width, c.height),
                !.boardBounds = bb,
                !.rowRects = rows,
                !.openRadius = radius,
                !.openCircles =
                    [s \in 1..kNumStrings |->
                        layoutOpenCircle(bb, rows, radius, s - 1)],
                !.rebuilds = @ + 1]

\* The rectangle of fret cell fretIdx (1..12) on row stringIdx.
cellRect(c, stringIdx, fretIdx) ==
    LET cw == c.boardBounds.w \div kNumFrets
        r == c.rowRects[stringIdx + 1]
    IN  Rect(c.boardBounds.x + (fretIdx - 1) * cw, r.y, cw, r.h)

\* ------------------------------------------------------------ triggerNote
\* Centre of the circular highlight: the open circle's centre, or the middle
\* of the fret cell on the string's row.
highlightCentre(c, stringIdx, fretIdx) ==
    IF fretIdx = 0 THEN getCentre(c.openCircles[stringIdx + 1])
    ELSE
        LET cw == c.boardBounds.w \div kNumFrets
            cx == c.boardBounds.x + ((2 * fretIdx - 1) * cw) \div 2
            cy == getCentreY(c.rowRects[stringIdx + 1])
        IN  Point(cx, cy)

\* The circle of radius openRadius around a centre, as paint and triggerNote
\* both build it.
circleRect(centre, radius) ==
    Rect(centre.x - radius, centre.y - radius, 2 * radius, 2 * radius)

newAnimation(c, stringIdx, fretIdx) ==
    LET centre == highlightCentre(c, stringIdx, fretIdx)
    IN  [ t0 |-> c.now,
          duration |-> Duration,
          stringIdx |-> stringIdx,
          fretIdx |-> fretIdx,
          isOpen |-> (fretIdx = 0),
          noteName |-> midiToNote(baseMidiForString(stringIdx) + fretIdx),
          center |-> centre,
          bounds |-> expanded(circleRect(centre, c.openRadius), Px(3), Px(3)) ]

\* if (onNotePlayed) onNotePlayed (a.noteName): the invocation is recorded
\* with the size of the active set the callback can observe.
notify(c, a) ==
    IF c.onNotePlayed
    THEN [c EXCEPT !.called =
            Append(@, [note |-> a.noteName, activeSize |-> Len(c.active)])]
    ELSE c

\* Mutant: a highlight already at the position is restarted, not joined.
RECURSIVE indexOfPosition(_, _, _)
indexOfPosition(anims, a, k) ==
    IF k > Len(anims) THEN 0
    ELSE IF anims[k].stringIdx = a.stringIdx /\ anims[k].fretIdx = a.fretIdx
         THEN k
         ELSE indexOfPosition(anims, a, k + 1)

addHighlightMerging(c, a) ==
    LET k == indexOfPosition(c.active, a, 1)
    IN  [c EXCEPT !.active = IF k = 0 THEN Append(@, a)
                             ELSE [@ EXCEPT ![k] = a],
                  !.repaints = Append(@, toNearestInt(a.bounds))]

addHighlight(c, a) ==
    [c EXCEPT !.active = Append(@, a),
              !.repaints = Append(@, toNearestInt(a.bounds))]

\* Mutant: the upper fret limit is off by one.
validPositionFretOffByOne(stringIdx, fretIdx) ==
    /\ ~(stringIdx < 0 \/ stringIdx >= kNumStrings)
    /\ ~(fretIdx < 0 \/ fretIdx > kNumFrets + 1)

validPosition(stringIdx, fretIdx) ==
    /\ ~(stringIdx < 0 \/ stringIdx >= kNumStrings)
    /\ ~(fretIdx < 0 \/ fretIdx > kNumFrets)

ensureGeometry(c) == IF c.openRadius <= 0 THEN rebuildStatic(c) ELSE c

\* Mutant: the callback runs after the highlight has been added.
triggerNoteNotifyLast(c, stringIdx, fretIdx) ==
    IF ~validPosition(stringIdx, fretIdx) THEN c
    ELSE
        LET c1 == ensureGeometry(c)
            a == newAnimation(c1, stringIdx, fretIdx)
        IN  notify(addHighlight(c1, a), a)

triggerNote(c, stringIdx, fretIdx) ==
    IF ~validPosition(stringIdx, fretIdx) THEN c
    ELSE
        LET c1 == ensureGeometry(c)
            a == newAnimation(c1, stringIdx, fretIdx)
        IN  addHighlight(notify(c1, a), a)

\* ------------------------------------------------------------ paint
removeAt(seq, i) ==
    [k \in 1..(Len(seq) - 1) |-> IF k < i THEN seq[k] ELSE seq[k + 1]]

\* t = (now - a.t0) / a.duration: the double quotient, with the fraction of
\* clock readings it stands for (num / den) kept beside it for (float) t.
elapsedQuotient(t0, t, duration) ==
    fdiv(fsub(seconds(t), seconds(t0)), tenthsLiteral(duration))

\* The same values for the clock readings the specifications reach, computed
\* once (@@ makes a table an explicit function).
clockReadings == 0 .. (MaxFadeTime + Duration)

secondsTable == [k \in clockReadings |-> seconds(k)] @@ << >>

durationSeconds == tenthsLiteral(Duration)

quotientTable ==
    [p \in { q \in clockReadings \X clockReadings : q[1] <= q[2] } |->
        fdiv(fsub(secondsTable[p[2]], secondsTable[p[1]]), durationSeconds)]
    @@ << >>

elapsedFraction(a, t) ==
    [ num |-> t - a.t0,
      den |-> a.duration,
      quotient |->
        IF /\ a.duration = Duration
           /\ a.t0 \in clockReadings /\ t \in clockReadings /\ a.t0 <= t
        THEN quotientTable[<< a.t0, t >>]
        ELSE elapsedQuotient(a.t0, t, a.duration) ]

\* if (t >= 1.0)
expired(t) == fgeq(t.quotient, kOne)

\* Mutant: the eased value itself is used as the alpha.
highlightAlphaEased(t) == easeOutCubic01(t)

\* alpha = 1.0f - easeOutCubic01 ((float) t)
highlightAlpha(t) ==
    LET e == easeOutCubic01(t)
    IN  Frac(e.den - e.num, e.den)

\* for (int i = active.size(); --i >= 0;): index i is 1-based here.
RECURSIVE paintLoop(_, _)
paintLoop(c, i) ==
    IF i < 1 THEN c
    ELSE
        LET a == c.active[i]
            t == elapsedFraction(a, c.now)
        IN  IF expired(t)
            THEN paintLoop([c EXCEPT !.active = removeAt(@, i),
                                     !.removed = @ + 1], i - 1)
            ELSE paintLoop(
                    [c EXCEPT !.drawn = Append(@,
                        [ t0 |-> a.t0,
                          duration |-> a.duration,
                          rect |-> circleRect(a.center, c.openRadius),
                          alpha |-> highlightAlpha(t) ])],
                    i - 1)

layerStale(c) ==
    \/ c.staticLayer.null
    \/ c.staticLayer.w # c.width
    \/ c.staticLayer.h # c.height

\* g.drawImageAt (staticLayer, 0, 0)
drawLayer(c) == [c EXCEPT !.blit = << c.staticLayer >>]

paint(c) ==
    LET c1 == IF layerStale(c) THEN rebuildStatic(c) ELSE c
        c2 == drawLayer(c1)
    IN  paintLoop(c2, Len(c2.active))

\* ------------------------------------------------------------ resized
resized(c) == rebuildStatic(c)

\* ------------------------------------------------------------ mouseDown
\* The first open circle containing p, or -1.
RECURSIVE firstOpenCircle(_, _, _)
firstOpenCircle(c, p, s) ==
    IF s >= kNumStrings THEN -1
    ELSE IF contains(c.openCircles[s + 1], p) THEN s
    ELSE firstOpenCircle(c, p, s + 1)

RECURSIVE firstRow(_, _, _)
firstRow(c, p, s) ==
    IF s >= kNumStrings THEN -1
    ELSE IF contains(c.rowRects[s + 1], p) THEN s
    ELSE firstRow(c, p, s + 1)

\* Mutant: the fret cell index is taken without the + 1.
fretAtZeroBased(c, p) ==
    LET xRel == p.x - c.boardBounds.x
        cw == c.boardBounds.w \div kNumFrets
    IN  jlimit(1, kNumFrets, xRel \div cw)

\* (int) std::floor (xRel / cw) + 1, limited to 1..kNumFrets.  Reached only
\* with p inside boardBounds, so cw > 0.
fretAt(c, p) ==
    LET xRel == p.x - c.boardBounds.x
        cw == c.boardBounds.w \div kNumFrets
    IN  jlimit(1, kNumFrets, (xRel \div cw) + 1)

issue(c, stringIdx, fretIdx) ==
    triggerNote([c EXCEPT !.triggers = Append(@, << stringIdx, fretIdx >>)],
                stringIdx, fretIdx)

mouseDown(c, p) ==
    LET open == firstOpenCircle(c, p, 0)
        row == firstRow(c, p, 0)
    IN  IF open >= 0 THEN issue(c, open, 0)
        ELSE IF ~contains(c.boardBounds, p) THEN c
        ELSE IF row < 0 THEN c
        ELSE issue(c, row, fretAt(c, p))

\* ------------------------------------------------------------ timerCallback
getUnion(r, other) ==
    IF isEmpty(other) THEN r
    ELSE IF isEmpty(r) THEN other
    ELSE
        LET newX == Min2(r.x, other.x)
            newY == Min2(r.y, other.y)
        IN  Rect(newX, newY,
                 Max2(getRight(r), getRight(other)) - newX,
                 Max2(getBottom(r), getBottom(other)) - newY)

\* Mutant: each bounding box replaces the region instead of joining it.
dirtyLastOnly(anims, k, dirty) == toNearestInt(anims[Len(anims)].bounds)

RECURSIVE dirtyUnion(_, _, _)
dirtyUnion(anims, k, dirty) ==
    IF k > Len(anims) THEN dirty
    ELSE
        LET b == toNearestInt(anims[k].bounds)
        IN  dirtyUnion(anims, k + 1,
                       IF isEmpty(dirty) THEN b ELSE getUnion(dirty, b))

\* Mutant: the tick never asks for a repaint.
timerCallbackIdle(c) == c

\* Mutant: the tick also drops the highlights whose time has run out.
timerCallbackPruning(c) ==
    IF c.active = << >> THEN c
    ELSE [c EXCEPT
            !.repaints =
                Append(@, expanded(dirtyUnion(c.active, 1, ZeroRect), 2, 2)),
            !.active =
                SelectSeq(@, LAMBDA a : ~expired(elapsedFraction(a, c.now)))]

timerCallback(c) ==
    IF c.active = << >> THEN c
    ELSE [c EXCEPT !.repaints =
            Append(@, expanded(dirtyUnion(c.active, 1, ZeroRect), 2, 2))]

\* ------------------------------------------------------------ actions
Op(name, c) ==
    [ op |-> name,
      called |-> c.called, repaints |-> c.repaints, rebuilds |-> c.rebuilds,
      triggers |-> c.triggers, drawn |-> c.drawn, removed |-> c.removed,
      blit |-> c.blit ]

\* The component after handler `name` took it from Comp to c.
Becomes(name, c) ==
    /\ lastOp' = Op(name, c)
    /\ active' = c.active
    /\ now' = c.now
    /\ width' = c.width
    /\ height' = c.height
    /\ staticLayer' = c.staticLayer
    /\ boardBounds' = c.boardBounds
    /\ rowRects' = c.rowRects
    /\ openCircles' = c.openCircles
    /\ openRadius' = c.openRadius
    /\ onNotePlayed' = c.onNotePlayed

Init ==
    /\ width = 0
    /\ height = 0
    /\ staticLayer = NullImage
    /\ boardBounds = ZeroRect
    /\ rowRects = [s \in 1..kNumStrings |-> ZeroRect]
    /\ openCircles = [s \in 1..kNumStrings |-> ZeroRect]
    /\ openRadius = 0
    /\ active = << >>
    /\ onNotePlayed = FALSE
    /\ now = 0
    /\ lastOp = Op("init", Comp)

\* fretboard->onNotePlayed = [this] (const juce::String& note) { ... }: the
\* editor registers its callback right after constructing the component; a
\* component used without one never gets one.
SetCallback ==
    /\ ~onNotePlayed
    /\ lastOp.op = "init"
    /\ Becomes("setCallback", [Comp EXCEPT !.onNotePlayed = TRUE])

\* fretboard->setBounds (area): juce::Component calls resized() when the
\* size has changed.
SetBounds(w, h) ==
    /\ << w, h >> # << width, height >>
    /\ Becomes("setBounds",
               resized([Comp EXCEPT !.width = w, !.height = h]))

\* resized() called with the size unchanged.
Resized == Becomes("resized", resized(Comp))

TriggerNote(stringIdx, fretIdx) ==
    /\ Len(active) < MaxActive
    /\ Becomes("triggerNote",
               triggerNote(Comp, stringIdx, fretIdx))

\* juce delivers a mouse-down to the component only for a position inside it.
MouseDown(x, y) ==
    /\ Len(active) < MaxActive
    /\ x < width
    /\ y < height
    /\ Becomes("mouseDown", mouseDown(Comp, Point(Px(x), Px(y))))

Paint == Becomes("paint", paint(Comp))

TimerCallback == Becomes("timerCallback", timerCallback(Comp))

\* The millisecond counter moves on between two events.
AdvanceTime(d, limit) ==
    /\ now + d <= limit
    /\ Becomes("advanceTime", [Comp EXCEPT !.now = now + d])

Next ==
    \/ SetCallback
    \/ \E sz \in Sizes : SetBounds(sz[1], sz[2])
    \/ Resized
    \/ \E s \in TrigStrings, f \in TrigFrets : TriggerNote(s, f)
    \/ \E x \in MouseXs, y \in MouseYs : MouseDown(x, y)
    \/ Paint
    \/ TimerCallback
    \/ \E d \in TimeSteps : AdvanceTime(d, MaxTime)

Spec == Init /\ [][Next]_vars

\* Programmatic triggers over every position, on the component as constructed.
NextTrigger ==
    \/ SetCallback
    \/ \E s \in AllStrings, f \in AllFrets : TriggerNote(s, f)

SpecTrigger == Init /\ [][NextTrigger]_vars

\* One position triggered again and again while the clock moves in single
\* tenths of a second and paint runs at any time.
NextFade ==
    \/ TriggerNote(0, 0)
    \/ AdvanceTime(1, MaxFadeTime)
    \/ Paint

SpecFade == Init /\ [][NextFade]_vars

\* Sizes around the degenerate limit (width or height <= 2), with layout,
\* paint, tick and programmatic triggers in any order and the clock at rest.
LayoutSizes ==
    { <<0, 0>>, <<2, 292>>, <<356, 2>>, <<3, 3>>, <<236, 100>>, <<356, 292>> }

NextLayout ==
    \/ \E sz \in LayoutSizes : SetBounds(sz[1], sz[2])
    \/ Resized
    \/ Paint
    \/ TimerCallback
    \/ \E f \in { 0, 12 } : TriggerNote(0, f)

SpecLayout == Init /\ [][NextLayout]_vars

\* The widget as a user drives it: laid out by its parent, clicked, painted
\* and ticked; every highlight comes from a pointer-down on a laid-out board.
ResizeSizes == Sizes \cup { <<356, 392>> }

NextResize ==
    \/ \E sz \in ResizeSizes : SetBounds(sz[1], sz[2])
    \/ \E x \in MouseXs, y \in MouseYs : MouseDown(x, y)
    \/ Paint
    \/ TimerCallback

SpecResize == Init /\ [][NextResize]_vars

\* Notes stop after TriggerUntil and the clock keeps moving until it is past
\* the last highlight's start time plus its duration.  The timer may tick, the message loop
\* may paint and the parent may resize the widget at any time.
LiveHorizon == TriggerUntil + Duration + Duration \div 2

LiveSizes == Sizes \ { <<0, 0>> }

LiveTrigger ==
    /\ now <= TriggerUntil
    /\ TriggerNote(0, 0)

Elapse == \E d \in TimeSteps : AdvanceTime(d, LiveHorizon)

NextLive ==
    \/ \E sz \in LiveSizes : SetBounds(sz[1], sz[2])
    \/ LiveTrigger
    \/ Elapse
    \/ TimerCallback
    \/ Paint

SpecLive ==
    /\ Init
    /\ [][NextLive]_vars
    /\ WF_vars(Elapse)

\* ------------------------------------------------------------ properties
InRange(stringIdx, fretIdx) ==
    stringIdx \in 0 .. 3 /\ fretIdx \in 0 .. 12

\* Everything of the component but the record of the last handler.
compVars == << width, height, staticLayer, boardBounds, rowRects,
               openCircles, openRadius, active, onNotePlayed, now >>

NoEffect(op) ==
    /\ op.called = << >>
    /\ op.repaints = << >>
    /\ op.rebuilds = 0
    /\ op.drawn = << >>
    /\ op.removed = 0

\* C1: triggerNote with stringIdx in [0,3] and fretIdx in [0,12] appends a
\* highlight and calls the registered callback with a non-empty note name;
\* with any other integers it appends nothing, calls nothing, requests no
\* repaint and leaves the component as it was.
C1_TriggerAcceptsExactlyTheBoard ==
    [][lastOp'.op = "triggerNote" =>
       \A s \in TrigStrings, f \in TrigFrets :
        TriggerNote(s, f) =>
            IF InRange(s, f)
            THEN /\ Len(active') = Len(active) + 1
                 /\ onNotePlayed =>
                        /\ Len(lastOp'.called) = 1
                        /\ lastOp'.called[1].note # ""
            ELSE /\ UNCHANGED compVars
                 /\ NoEffect(lastOp')]_vars

C1_Witness ==
    /\ lastOp.op = "triggerNote"
    /\ Len(lastOp.called) = 1
    /\ Len(active) = 1
    /\ active[1].fretIdx = 12

\* C2: the note name of row s, fret f is the chromatic name at index
\* (base + f) mod 12 followed by the octave floor((base + f) / 12) - 1, with
\* base 43, 38, 33, 28 for rows 0..3; (0,0) is G2, (1,0) D2, (2,0) A1,
\* (3,0) E1 and (3,1) F1.
ChromaticScale ==
    << "C", "C#", "D", "D#", "E", "F", "F#", "G", "G#", "A", "A#", "B" >>
OctaveText == [o \in 0 .. 4 |-> << "0", "1", "2", "3", "4" >>[o + 1]]
RowBase == << 43, 38, 33, 28 >>

ExpectedNoteName(s, f) ==
    LET pitch == RowBase[s + 1] + f
    IN  ChromaticScale[(pitch % 12) + 1] \o OctaveText[(pitch \div 12) - 1]

TunedName(s, f) ==
    CASE s = 0 /\ f = 0 -> "G2"
      [] s = 1 /\ f = 0 -> "D2"
      [] s = 2 /\ f = 0 -> "A1"
      [] s = 3 /\ f = 0 -> "E1"
      [] s = 3 /\ f = 1 -> "F1"
      [] OTHER -> ExpectedNoteName(s, f)

C2_NoteNames ==
    /\ \A i \in 1 .. Len(active) :
        /\ active[i].noteName =
                ExpectedNoteName(active[i].stringIdx, active[i].fretIdx)
        /\ active[i].noteName =
                TunedName(active[i].stringIdx, active[i].fretIdx)
    /\ \A i \in 1 .. Len(lastOp.called) :
        lastOp.called[i].note = active[Len(active)].noteName

C2_Witness ==
    /\ Len(active) = 2
    /\ active[1].stringIdx = 3 /\ active[1].fretIdx = 1
    /\ active[1].noteName = "F1"
    /\ active[2].stringIdx = 0 /\ active[2].fretIdx = 12
    /\ active[2].noteName = "G3"
    /\ Len(lastOp.called) = 1

\* C3: the callback is called exactly once per successful triggerNote and
\* never otherwise, with the note name stored in the new highlight, and when
\* it runs the new highlight is not yet in the active set.
C3_CallbackOncePerTriggerBeforeAppend ==
    [][/\ Len(lastOp'.called) <= 1
       /\ lastOp'.called # << >> =>
            /\ lastOp'.op \in { "triggerNote", "mouseDown" }
            /\ onNotePlayed
            /\ active' = Append(active, active'[Len(active')])
            /\ lastOp'.called[1].note = active'[Len(active')].noteName
            /\ lastOp'.called[1].activeSize = Len(active)
       /\ (onNotePlayed /\ Len(active') > Len(active)) =>
            Len(lastOp'.called) = 1]_vars

C3_Witness ==
    /\ lastOp.op = "mouseDown"
    /\ Len(active) = 2
    /\ Len(lastOp.called) = 1
    /\ lastOp.called[1].activeSize = 1
    /\ lastOp.called[1].note = active[2].noteName

MousePoint(x, y) == Point(Px(x), Px(y))

InSomeOpenCircle(p) ==
    \E s \in 0 .. 3 : contains(openCircles[s + 1], p)

IsTriggerOp(op) == op.op \in { "triggerNote", "mouseDown" }

\* C4: with the geometry computed, a pointer-down inside string s's
\* open-circle hit target resolves to exactly triggerNote(s, 0), never to
\* another string or to a fretted position.
C4_OpenCircleResolvesToItsString ==
    [][lastOp'.op = "mouseDown" =>
       \A x \in MouseXs, y \in MouseYs :
        (MouseDown(x, y) /\ openRadius > 0 /\ width > 2 /\ height > 2) =>
            \A s \in 0 .. 3 :
                contains(openCircles[s + 1], MousePoint(x, y)) =>
                    lastOp'.triggers = << << s, 0 >> >>]_vars

\* C5: a pointer-down in no open-circle target triggers nothing when it is
\* outside boardBounds or in no row rectangle, and otherwise issues exactly
\* one triggerNote(row, fret) for the row rectangle and the fret cell (1..12)
\* that contain the point.
C5_BoardClickResolvesToCell ==
    [][lastOp'.op = "mouseDown" =>
       \A x \in MouseXs, y \in MouseYs :
        (MouseDown(x, y) /\ ~InSomeOpenCircle(MousePoint(x, y))) =>
            LET p == MousePoint(x, y)
            IN  IF \/ ~contains(boardBounds, p)
                   \/ \A s \in 0 .. 3 : ~contains(rowRects[s + 1], p)
                THEN /\ lastOp'.triggers = << >>
                     /\ UNCHANGED compVars
                     /\ NoEffect(lastOp')
                ELSE \E row \in 0 .. 3, fret \in 1 .. 12 :
                        /\ contains(rowRects[row + 1], p)
                        /\ contains(cellRect(Comp, row, fret), p)
                        /\ Px(x) - boardBounds.x >=
                                (fret - 1) * (boardBounds.w \div 12)
                        /\ Px(x) - boardBounds.x < fret * (boardBounds.w \div 12)
                        /\ lastOp'.triggers = << << row, fret >> >>
                        /\ Len(active') = Len(active) + 1
                        /\ active'[Len(active')].stringIdx = row
                        /\ active'[Len(active')].fretIdx = fret]_vars

C5_Witness ==
    /\ lastOp.op = "mouseDown"
    /\ lastOp.triggers = << << 0, 5 >> >>
    /\ active[Len(active)].fretIdx = 5

\* C6: a paint at time now leaves exactly the highlights with
\* now - t0 < duration, in their order; elapsed = duration counts as expired.
Live(a) == now - a.t0 < a.duration

C6_PaintKeepsExactlyTheLive ==
    [][lastOp'.op = "paint" =>
        /\ active' = SelectSeq(active, Live)
        /\ lastOp'.removed = Len(active) - Len(active')
        /\ \A i \in 1 .. Len(active) :
            (now - active[i].t0 >= active[i].duration) =>
                \A j \in 1 .. Len(active') : active'[j].t0 # active[i].t0]_vars

C6_Witness ==
    /\ lastOp.op = "paint"
    /\ lastOp.removed = 1
    /\ Len(active) = 1
    /\ now - active[1].t0 = Duration - 1

\* C7: the static layer is rebuilt only when the cached layer is missing or
\* of another size: a size-change handler call with the size unchanged, a
\* paint, a tick or a trigger rebuilds nothing while the layer matches.
C7_NoRebuildWhileLayerMatches ==
    [][(/\ lastOp'.op \in { "resized", "paint", "timerCallback",
                            "triggerNote", "mouseDown" }
        /\ ~layerStale(Comp)) =>
            lastOp'.rebuilds = 0]_vars

\* C8: a triggerNote that creates a highlight works on computed geometry:
\* openRadius > 0, non-empty boardBounds and row rectangles.
C8_TriggerUsesComputedGeometry ==
    (IsTriggerOp(lastOp) /\ lastOp.repaints # << >>) =>
        /\ openRadius > 0
        /\ ~isEmpty(boardBounds)
        /\ \A s \in 1 .. kNumStrings : ~isEmpty(rowRects[s])

\* C9: every successful triggerNote adds exactly one highlight and leaves
\* those already in the set unchanged; only paint removes, each highlight
\* when its own elapsed time has reached its duration.
C9_HighlightsAreAdditive ==
    [][/\ (IsTriggerOp(lastOp') /\ lastOp'.repaints # << >>) =>
            /\ Len(active') = Len(active) + 1
            /\ active'[Len(active')].t0 = now
       /\ lastOp'.op # "paint" =>
            /\ Len(active') >= Len(active)
            /\ SubSeq(active', 1, Len(active)) = active
       /\ lastOp'.op = "paint" =>
            \A i \in 1 .. Len(active) :
                (now - active[i].t0 < active[i].duration) <=>
                    (\E j \in 1 .. Len(active') : active'[j] = active[i])]_vars

C9_Witness ==
    /\ IsTriggerOp(lastOp)
    /\ Len(active) = 2
    /\ active[1].stringIdx = active[2].stringIdx
    /\ active[1].fretIdx = active[2].fretIdx
    /\ active[1].t0 < active[2].t0
    /\ active[1].t0 + active[1].duration > now

\* C10: the opacity paint renders is 1 - easeOutCubic(elapsed / duration),
\* easeOutCubic(t) = 1 - (1 - t)^3 on t limited to [0,1]; in elapsed time it
\* never increases, is 1 at 0, stays in [0,1] and is 0 at elapsed = duration.
FadeRange == -3 .. (Duration + 3)
OpacityAt(e) == highlightAlpha(Frac(e, Duration))
ClaimedOpacity(e) ==
    LET t == IF e < 0 THEN 0 ELSE IF e > Duration THEN Duration ELSE e
        ease == Cube(Duration) - Cube(Duration - t)
    IN  Frac(Cube(Duration) - ease, Cube(Duration))

C10_OpacityIsOneMinusEaseOutCubic ==
    /\ \A i \in 1 .. Len(lastOp.drawn) :
        /\ lastOp.drawn[i].alpha =
                ClaimedOpacity(now - lastOp.drawn[i].t0)
        /\ lastOp.drawn[i].alpha.num >= 0
        /\ lastOp.drawn[i].alpha.num <= lastOp.drawn[i].alpha.den
    /\ \A e \in FadeRange :
        /\ OpacityAt(e) = ClaimedOpacity(e)
        /\ OpacityAt(e).num >= 0
        /\ OpacityAt(e).num <= OpacityAt(e).den
        /\ \A e2 \in FadeRange : e <= e2 => OpacityAt(e).num >= OpacityAt(e2).num
    /\ OpacityAt(0).num = OpacityAt(0).den
    /\ OpacityAt(Duration).num = 0

C10_Witness ==
    /\ lastOp.op = "paint"
    /\ Len(lastOp.drawn) = 2
    /\ lastOp.drawn[1].alpha.num < lastOp.drawn[1].alpha.den
    /\ lastOp.drawn[2].alpha.num < lastOp.drawn[1].alpha.num
    /\ lastOp.drawn[2].alpha.num > 0

\* C11 as stated: for 0 <= t < duration the opacity paint renders is
\* 1 - (1 - t/duration)^3.
C11_OpacityIsEaseOutCubic ==
    \A i \in 1 .. Len(lastOp.drawn) :
        LET d == lastOp.drawn[i]
            e == now - d.t0
        IN  (0 <= e /\ e < d.duration) =>
                d.alpha = Frac(Cube(d.duration) - Cube(d.duration - e),
                               Cube(d.duration))

\* C11 amended: for 0 <= t < duration the opacity paint renders is
\* (1 - t/duration)^3, that is 1 - easeOutCubic(t/duration): 1 at t = 0 and
\* falling towards 0.
C11_OpacityIsCubeOfRemaining ==
    /\ \A i \in 1 .. Len(lastOp.drawn) :
        LET d == lastOp.drawn[i]
            e == now - d.t0
        IN  (0 <= e /\ e < d.duration) =>
                d.alpha.num * Cube(d.duration) =
                    Cube(d.duration - e) * d.alpha.den
    /\ \A e \in 0 .. (Duration - 1) :
        OpacityAt(e).num * Cube(Duration) =
            Cube(Duration - e) * OpacityAt(e).den

C11_Witness ==
    /\ lastOp.op = "paint"
    /\ Len(lastOp.drawn) = 1
    /\ now - lastOp.drawn[1].t0 = 9
    /\ lastOp.drawn[1].alpha = Frac(Cube(9), Cube(Duration))

\* C12: a tick with an empty active set requests no repaint and does
\* nothing; with a non-empty one it requests exactly one repaint, of the
\* union of the stored bounding boxes of all active highlights (as integer
\* rectangles) expanded by 2 pixels, never of the whole widget.
SetMin(S) == CHOOSE v \in S : \A u \in S : v <= u
SetMax(S) == CHOOSE v \in S : \A u \in S : v >= u

BoxesOf(anims) == { toNearestInt(anims[i].bounds) : i \in 1 .. Len(anims) }

ClaimedDirty(anims) ==
    LET boxes == BoxesOf(anims)
        left == SetMin({ b.x : b \in boxes })
        top == SetMin({ b.y : b \in boxes })
        right == SetMax({ b.x + b.w : b \in boxes })
        bottom == SetMax({ b.y + b.h : b \in boxes })
    IN  Rect(left - 2, top - 2, right - left + 4, bottom - top + 4)

\* An integer-pixel region covers a rectangle given in coordinate units.
Covers(region, r) ==
    /\ Px(region.x) <= r.x
    /\ Px(region.y) <= r.y
    /\ Px(region.x + region.w) >= r.x + r.w
    /\ Px(region.y + region.h) >= r.y + r.h

C12_TickRepaintsUnionOfBounds ==
    [][lastOp'.op = "timerCallback" =>
        /\ UNCHANGED compVars
        /\ lastOp'.rebuilds = 0 /\ lastOp'.called = << >>
        /\ lastOp'.drawn = << >> /\ lastOp'.removed = 0
        /\ IF active = << >>
           THEN lastOp'.repaints = << >>
           ELSE /\ Len(lastOp'.repaints) = 1
                /\ lastOp'.repaints[1] = ClaimedDirty(active)
                /\ lastOp'.repaints[1] # Rect(0, 0, width, height)
                /\ \A i \in 1 .. Len(active) :
                    Covers(lastOp'.repaints[1], active[i].bounds)]_vars

C12_Witness ==
    /\ lastOp.op = "timerCallback"
    /\ Len(active) = 2
    /\ Len(lastOp.repaints) = 1
    /\ \A i \in 1 .. 2 :
        lastOp.repaints[1].w > toNearestInt(active[i].bounds).w + 4

\* C13: a size-change handler call or any geometry rebuild at a degenerate
\* size (width or height <= 2) is skipped entirely: boardBounds, the rows,
\* the open circles, openRadius and the cached layer keep their values, and
\* a paint still completes, drawing the prior layer.
geometryVars ==
    << staticLayer, boardBounds, rowRects, openCircles, openRadius >>

Degenerate(w, h) == w <= 2 \/ h <= 2

C13_DegenerateSizeKeepsGeometry ==
    [][(lastOp'.op # "advanceTime" /\ Degenerate(width', height')) =>
        /\ UNCHANGED geometryVars
        /\ lastOp'.rebuilds = 0
        /\ lastOp'.op = "paint" =>
            /\ lastOp'.blit = << staticLayer >>
            /\ active' = SelectSeq(active, Live)
            /\ Len(lastOp'.drawn) = Len(active')]_vars

C13_Witness ==
    /\ lastOp.op = "paint"
    /\ width = 356 /\ height = 2
    /\ lastOp.blit = << Image(236, 100) >>
    /\ openRadius = Px(12)
    /\ Len(lastOp.drawn) = 1

\* C14: the active set changes only by a successful triggerNote (direct or
\* through a pointer-down) appending one highlight, or by paint removing the
\* highlights whose elapsed time has reached their duration; the tick, the
\* size-change handlers, rejected triggers and ignored pointer-downs leave it
\* unchanged, and no operation removes a highlight whose elapsed time is
\* still below its duration.
AppendsOne ==
    /\ Len(active') = Len(active) + 1
    /\ SubSeq(active', 1, Len(active)) = active
    /\ active'[Len(active')].t0 = now
    /\ active'[Len(active')].duration = Duration

Occurrences(seq, a) == Cardinality({ i \in 1 .. Len(seq) : seq[i] = a })

C14_ActiveChangesOnlyByTriggerAndExpiry ==
    [][/\ active' # active =>
            \/ IsTriggerOp(lastOp') /\ AppendsOne
            \/ /\ lastOp'.op = "paint"
               /\ Len(active') < Len(active)
               /\ \A j \in 1 .. Len(active') :
                    Occurrences(active', active'[j]) <=
                        Occurrences(active, active'[j])
               /\ \A i \in 1 .. Len(active) :
                    Occurrences(active', active[i]) <
                        Occurrences(active, active[i]) =>
                            now - active[i].t0 >= active[i].duration
       /\ lastOp'.op \in { "timerCallback", "resized", "setBounds",
                           "setCallback", "advanceTime" } =>
            active' = active
       /\ lastOp'.op = "triggerNote" =>
            \A s \in TrigStrings, f \in TrigFrets :
                TriggerNote(s, f) =>
                    IF InRange(s, f) THEN AppendsOne ELSE active' = active
       /\ lastOp'.op = "mouseDown" =>
            IF lastOp'.triggers = << >> THEN active' = active ELSE AppendsOne
       /\ \A i \in 1 .. Len(active) :
            Live(active[i]) =>
                Occurrences(active', active[i]) >= Occurrences(active, active[i])
      ]_vars

C14_Witness ==
    /\ lastOp.op = "timerCallback"
    /\ Len(active) = 2
    /\ now - active[1].t0 >= Duration
    /\ now - active[2].t0 < Duration

\* C15: in every reachable state, size changes with highlights active
\* included, the bounding box stored in each active highlight covers the
\* circle paint draws for it: the circle of the current openRadius around
\* the highlight's stored center.
RectCovers(outer, inner) ==
    /\ outer.x <= inner.x
    /\ outer.y <= inner.y
    /\ getRight(outer) >= getRight(inner)
    /\ getBottom(outer) >= getBottom(inner)

C15_StoredBoundsCoverDrawnCircle ==
    \A i \in 1 .. Len(active) :
        RectCovers(active[i].bounds,
                   circleRect(active[i].center, openRadius))

\* The consequence C15 draws from it: the region a tick asks to repaint
\* covers every circle the next paint draws.
C15_TickRegionCoversDrawnCircles ==
    (lastOp.op = "timerCallback" /\ Len(lastOp.repaints) = 1) =>
        \A i \in 1 .. Len(active) :
            Covers(lastOp.repaints[1],
                   circleRect(active[i].center, openRadius))

\* C16: when notes stop being triggered, time keeps advancing, ticks keep
\* firing and every repaint a tick requests is eventually served by a paint,
\* every highlight is eventually removed: the active set becomes empty and
\* stays empty, and from then on ticks request no repaint.
TickRequestsRepaint ==
    lastOp.op = "timerCallback" /\ lastOp.repaints # << >>

TicksKeepFiring == []<>(lastOp.op = "timerCallback")

RequestsAreServed == [](TickRequestsRepaint => <>(lastOp.op = "paint"))

C16_HighlightsEventuallyGone ==
    (TicksKeepFiring /\ RequestsAreServed) =>
        <>[](active = << >> /\ ~TickRequestsRepaint)

C16_Witness ==
    /\ lastOp.op = "paint"
    /\ lastOp.removed = MaxActive
    /\ active = << >>
    /\ now > TriggerUntil

====
